---- MODULE Spec2Model ----
(***************************************************************************)
(* PlayerColorParam binary codec (player-color-param/src/lib.rs).          *)
(*                                                                         *)
(* to_binary_data is modelled as an operator on tables, from_binary_data   *)
(* as a state machine over a seekable byte buffer: one action per header   *)
(* field and two per loop iteration (resolve the character id, then read   *)
(* the fixed-width fields).  Buffers are sequences of bytes; stream        *)
(* positions are 0-based, as in the source.                                *)
(*                                                                         *)
(* Integers read from the buffer keep their width: a u32 is a pair and a   *)
(* u64 a 4-tuple of 16-bit limbs, least significant first.                 *)
(***************************************************************************)
EXTENDS Integers, Sequences, FiniteSets

VARIABLES
    overflow_checks, \* build profile: TRUE = debug (overflow panics), FALSE = release (wraps)
    source,          \* "table": the buffer comes from to_binary_data; "bytes": caller-supplied
    param,           \* the table handed to to_binary_data (insertion order kept)
    buf,             \* contents of the reader
    pos,             \* stream position of the reader
    pc,              \* control point
    entry_count,     \* u32 read at line 23
    data_offset,     \* u64 computed at line 25
    i,               \* completed loop iterations
    pos_save,        \* line 33
    character_id,    \* line 35
    entries,         \* IndexMap<EntryKey, RGB>, in insertion order
    alt_tracker,     \* HashMap<(String, u8), u8>
    outcome,         \* "none" while running, then "ok", "err" or "panic"
    log              \* history: the locals of every loop iteration so far

vars == <<overflow_checks, source, param, buf, pos, pc, entry_count, data_offset,
          i, pos_save, character_id, entries, alt_tracker, outcome, log>>

(***************************************************************************)
(* Bounds of the model and constants of the program.                       *)
(***************************************************************************)
MaxEntries == 2

EXPECTED_VERSION == 1000
VERSION == 1000
HEADER_SIZE == 16
STRING_LENGTH == 8
ENTRY_SIZE == 24 + STRING_LENGTH
U64_SIZE == 8
U8_RANGE == 256
LIMB == 256 * 256

Min(a, b) == IF a < b THEN a ELSE b

Range(s) == {s[k] : k \in 1..Len(s)}

RECURSIVE Concat(_)
Concat(ss) == IF ss = <<>> THEN <<>> ELSE Head(ss) \o Concat(Tail(ss))

(***************************************************************************)
(* byteorder: little-endian writes.                                        *)
(***************************************************************************)
LE16(x) == <<x % 256, (x \div 256) % 256>>

write_u32(x) == LE16(x % LIMB) \o LE16((x \div LIMB) % LIMB)

\* x as u64: a negative x is stored in two's complement, as `as u64` does.
write_u64(x) ==
    LET l0 == x % LIMB
        r1 == (x - l0) \div LIMB
        l1 == r1 % LIMB
        r2 == (r1 - l1) \div LIMB
        l2 == r2 % LIMB
        r3 == (r2 - l2) \div LIMB
        l3 == r3 % LIMB
    IN  LE16(l0) \o LE16(l1) \o LE16(l2) \o LE16(l3)

(***************************************************************************)
(* byteorder: little-endian reads at 0-based position p.  A read of n      *)
(* bytes succeeds iff n bytes are left (read_exact).                       *)
(***************************************************************************)
Avail(b, p, n) == p + n <= Len(b)

Limb(b, p) == b[p + 1] + 256 * b[p + 2]

read_u32(b, p) == <<Limb(b, p), Limb(b, p + 2)>>

read_u64(b, p) == <<Limb(b, p), Limb(b, p + 2), Limb(b, p + 4), Limb(b, p + 6)>>

\* `as u8` of a u32: the low 8 bits.
AsU8_Saturating(v) == IF v[2] # 0 \/ v[1] > 255 THEN 255 ELSE v[1]
AsU8(v) == v[1] % U8_RANGE

\* version != EXPECTED_VERSION, negated
VersionOk_LowHalf(v) == v[1] = EXPECTED_VERSION
VersionOk(v) == v = <<EXPECTED_VERSION, 0>>

\* i < entry_count for the loop index i (always below 2^16 here)
InRange(k, count) == count[2] > 0 \/ k < count[1]

(***************************************************************************)
(* raw - size_of::<u64>(): u64 subtraction.  It overflows iff raw < 8; a   *)
(* build with overflow checks panics there, one without wraps.             *)
(***************************************************************************)
SubOverflows(v) == v[2] = 0 /\ v[3] = 0 /\ v[4] = 0 /\ v[1] < U64_SIZE

WrappingSub(v) ==
    LET d0 == v[1] - U64_SIZE
        d1 == v[2] - (IF d0 < 0 THEN 1 ELSE 0)
        d2 == v[3] - (IF d1 < 0 THEN 1 ELSE 0)
        d3 == v[4] - (IF d2 < 0 THEN 1 ELSE 0)
    IN  <<d0 % LIMB, d1 % LIMB, d2 % LIMB, d3 % LIMB>>

(***************************************************************************)
(* reader.seek(SeekFrom::Current(v as i64)) from position p: the new       *)
(* position, or -1 when the seek fails (a negative position).  Seeking     *)
(* past the end succeeds (Cursor, File); FarPos stands for every position  *)
(* of 2^16 or more, all of them beyond any buffer, where the next read     *)
(* fails.                                                                  *)
(***************************************************************************)
FarPos == 2 * LIMB

SeekCurrent(p, v) ==
    IF v[4] < LIMB \div 2
    THEN IF v[2] = 0 /\ v[3] = 0 /\ v[4] = 0 THEN Min(p + v[1], FarPos) ELSE FarPos
    ELSE IF v[2] = LIMB - 1 /\ v[3] = LIMB - 1 /\ v[4] = LIMB - 1 /\ p - (LIMB - v[1]) >= 0
         THEN p - (LIMB - v[1])
         ELSE -1

(***************************************************************************)
(* read_cstring: the bytes from p up to the first zero byte.               *)
(***************************************************************************)
RECURSIVE ValidUtf8(_, _)
ValidUtf8(s, k) ==
    IF k > Len(s) THEN TRUE
    ELSE LET b == s[k]
             In(j, lo, hi) == j <= Len(s) /\ s[j] >= lo /\ s[j] <= hi
             Cont(j) == In(j, 128, 191)
         IN  IF b < 128 THEN ValidUtf8(s, k + 1)
             ELSE IF b >= 194 /\ b <= 223 THEN Cont(k + 1) /\ ValidUtf8(s, k + 2)
             ELSE IF b = 224 THEN In(k + 1, 160, 191) /\ Cont(k + 2) /\ ValidUtf8(s, k + 3)
             ELSE IF (b >= 225 /\ b <= 236) \/ b = 238 \/ b = 239
                  THEN Cont(k + 1) /\ Cont(k + 2) /\ ValidUtf8(s, k + 3)
             ELSE IF b = 237 THEN In(k + 1, 128, 159) /\ Cont(k + 2) /\ ValidUtf8(s, k + 3)
             ELSE IF b = 240
                  THEN In(k + 1, 144, 191) /\ Cont(k + 2) /\ Cont(k + 3) /\ ValidUtf8(s, k + 4)
             ELSE IF b >= 241 /\ b <= 243
                  THEN Cont(k + 1) /\ Cont(k + 2) /\ Cont(k + 3) /\ ValidUtf8(s, k + 4)
             ELSE IF b = 244
                  THEN In(k + 1, 128, 143) /\ Cont(k + 2) /\ Cont(k + 3) /\ ValidUtf8(s, k + 4)
             ELSE FALSE

\* position of the first zero byte at or after p, or -1 when the buffer ends first
RECURSIVE FirstNul(_, _)
FirstNul(b, p) ==
    IF p >= Len(b) THEN -1
    ELSE IF b[p + 1] = 0 THEN p
    ELSE FirstNul(b, p + 1)

read_cstring(b, p) ==
    LET z == FirstNul(b, p)
        bytes == IF z < 0 THEN <<>> ELSE SubSeq(b, p + 1, z)
    IN  [ok |-> z >= 0 /\ ValidUtf8(bytes, 1), str |-> bytes]

(***************************************************************************)
(* EntryKey's ordering (String compares bytewise).                         *)
(***************************************************************************)
StrLess(a, b) ==
    \E k \in 1..(Min(Len(a), Len(b)) + 1) :
        /\ \A j \in 1..(k - 1) : a[j] = b[j]
        /\ \/ k > Len(a) /\ k <= Len(b)
           \/ k <= Len(a) /\ k <= Len(b) /\ a[k] < b[k]

KeyLess(x, y) ==
    \/ StrLess(x.character_id, y.character_id)
    \/ /\ x.character_id = y.character_id
       /\ \/ x.costume_index < y.costume_index
          \/ x.costume_index = y.costume_index /\ x.alt_index < y.alt_index

(***************************************************************************)
(* to_binary_data                                                          *)
(***************************************************************************)
sort_keys_Unsorted(es) == es
sort_keys(es) ==
    [k \in 1..Len(es) |->
        CHOOSE e \in Range(es) :
            Cardinality({f \in Range(es) : KeyLess(f.key, e.key)}) = k - 1]

character_id_offset_NoStringStride(entry_count_, k) ==
    (ENTRY_SIZE - STRING_LENGTH) * (entry_count_ - k)
character_id_offset(entry_count_, k) ==
    (ENTRY_SIZE - STRING_LENGTH) * (entry_count_ - k) + STRING_LENGTH * k

\* Vec::with_capacity(size)
size(es) == HEADER_SIZE + Len(es) * ENTRY_SIZE

EntryRecord_BlueFirst(e, entry_count_, k) ==
    write_u64(character_id_offset(entry_count_, k))
        \o write_u32(e.key.costume_index)
        \o write_u32(e.value.red)
        \o write_u32(e.value.blue)
        \o write_u32(e.value.green)
EntryRecord(e, entry_count_, k) ==
    write_u64(character_id_offset(entry_count_, k))
        \o write_u32(e.key.costume_index)
        \o write_u32(e.value.red)
        \o write_u32(e.value.green)
        \o write_u32(e.value.blue)

StringRecord_Padded(e) ==
    [k \in 1..STRING_LENGTH |->
        IF k <= Len(e.key.character_id) THEN e.key.character_id[k] ELSE 0]
StringRecord(e) == e.key.character_id \o <<0, 0>>

to_binary_data(es) ==
    LET n == Len(es)
        sorted == sort_keys(es)
    IN  write_u32(VERSION) \o write_u32(n) \o write_u64(U64_SIZE)
            \o Concat([k \in 1..n |-> EntryRecord(sorted[k], n, k - 1)])
            \o Concat([k \in 1..n |-> StringRecord(sorted[k])])

(***************************************************************************)
(* IndexMap::insert: an existing key keeps its place and takes the new     *)
(* value; a new key is appended.                                           *)
(***************************************************************************)
insert(es, key, value) ==
    IF \E k \in 1..Len(es) : es[k].key = key
    THEN [k \in 1..Len(es) |->
            IF es[k].key = key THEN [key |-> key, value |-> value] ELSE es[k]]
    ELSE Append(es, [key |-> key, value |-> value])

\* seek(SeekFrom::Start(pos_save)) after the string has been read
RestorePosition_Skipped(saved, after_string) == after_string
RestorePosition(saved, after_string) == saved

(***************************************************************************)
(* Inputs.  Tables for the encoder; byte buffers for the decoder, built    *)
(* from a well-formed layout (header, optional ignored region, entry       *)
(* records, strings) and then optionally damaged.                          *)
(***************************************************************************)
Id1 == <<49, 106, 110, 116, 48, 49>>      \* "1jnt01"
Id2 == <<50, 106, 115, 112, 48, 49>>      \* "2jsp01"
IdShort == <<49, 106, 110, 116, 48>>      \* "1jnt0"
IdNul == <<49, 106, 0, 116, 48, 49>>      \* "1j\0t01"

EntryKey(c, x, a) == [character_id |-> c, costume_index |-> x, alt_index |-> a]
RGB(r, g, b) == [red |-> r, green |-> g, blue |-> b]

Keys ==
    {EntryKey(c, x, a) : c \in {Id1, Id2}, x \in {2, 3}, a \in {0, 1}}
        \cup {EntryKey(IdShort, 3, 0), EntryKey(IdNul, 3, 0)}

Colors == {RGB(64, 82, 197), RGB(143, 246, 72)}

Tables ==
    UNION {{t \in [1..n -> [key : Keys, value : Colors]] :
                \A a, b \in 1..n : a # b => t[a].key # t[b].key} : n \in 0..MaxEntries}

RECORD_SIZE == ENTRY_SIZE - STRING_LENGTH

Hello == <<104, 101, 108, 108, 111, 0, 0, 0>>     \* "hello", ignored by the parser
Gaps == {<<>>, Hello}

\* "1jnt01\0\0", then two bytes that are not UTF-8
StringPool == Id1 \o <<0, 0>> \o <<195, 40, 0>>

\* target: offset of the string in the pool, or -1 for the first byte after the header
\* (a backward pointer into the ignored region)
RecordKinds ==
    { [target |-> 0,  costume |-> 3,   c1 |-> 64,  c2 |-> 82,  c3 |-> 197],
      [target |-> 0,  costume |-> 3,   c1 |-> 143, c2 |-> 246, c3 |-> 72],
      [target |-> 0,  costume |-> 259, c1 |-> 323, c2 |-> 0,   c3 |-> 255],
      [target |-> -1, costume |-> 2,   c1 |-> 1,   c2 |-> 2,   c3 |-> 3],
      [target |-> 8,  costume |-> 3,   c1 |-> 0,   c2 |-> 0,   c3 |-> 0] }

BaseFile(g, rs) ==
    LET m == Len(rs)
        table == HEADER_SIZE + Len(g)
        ptr(j) ==
            (IF rs[j].target < 0 THEN HEADER_SIZE
                                 ELSE table + RECORD_SIZE * m + rs[j].target)
                - (table + RECORD_SIZE * (j - 1) + U64_SIZE) + U64_SIZE
        rec(j) == write_u64(ptr(j)) \o write_u32(rs[j].costume)
                    \o write_u32(rs[j].c1) \o write_u32(rs[j].c2) \o write_u32(rs[j].c3)
    IN  write_u32(VERSION) \o write_u32(m) \o write_u64(U64_SIZE + Len(g)) \o g
            \o [k \in 1..(RECORD_SIZE * m) |->
                    rec(((k - 1) \div RECORD_SIZE) + 1)[((k - 1) % RECORD_SIZE) + 1]]
            \o StringPool

Patch(b, p, bytes) ==
    [k \in 1..Len(b) |-> IF k > p /\ k <= p + Len(bytes) THEN bytes[k - p] ELSE b[k]]

BadVersions == {1001, 1000 + LIMB}
BadOffsets == {0, 4, 1000}

Damaged(b, g, m) ==
    LET table == HEADER_SIZE + Len(g)
        cuts == {0, 3, 4, 7, 15, table + 10, Len(b) - 5, Len(b) - 1}
    IN  {b}
          \cup {SubSeq(b, 1, n) : n \in {c \in cuts : c <= Len(b)}}
          \cup {Patch(b, 0, write_u32(v)) : v \in BadVersions}
          \cup {write_u32(v) : v \in BadVersions}
          \cup {Patch(b, 8, write_u64(r)) : r \in BadOffsets}
          \cup {Patch(b, table, write_u64(r)) : r \in BadOffsets}
          \cup {Patch(b, 4, write_u32(m + 1))}

RawFiles ==
    UNION {Damaged(BaseFile(g, rs), g, Len(rs)) :
             g \in Gaps, rs \in UNION {[1..m -> RecordKinds] : m \in 0..MaxEntries}}

\* one more entry of a single (character id, costume) pair than a u8 counts
BigCount == U8_RANGE + 1
BigFile == BaseFile(<<>>, [j \in 1..BigCount |->
                [target |-> 0, costume |-> 3, c1 |-> 64, c2 |-> 82, c3 |-> 197]])

(***************************************************************************)
(* The state machine.                                                      *)
(***************************************************************************)
NoU32 == <<0, 0>>
NoU64 == <<0, 0, 0, 0>>

Init ==
    /\ overflow_checks \in BOOLEAN
    /\ \/ source = "table" /\ param \in Tables /\ buf = <<>> /\ pc = "encode"
       \/ source = "bytes" /\ param = <<>> /\ buf \in RawFiles \cup {BigFile}
            /\ pc = "version"
    /\ pos = 0
    /\ entry_count = NoU32
    /\ data_offset = NoU64
    /\ i = 0
    /\ pos_save = 0
    /\ character_id = <<>>
    /\ entries = <<>>
    /\ alt_tracker = <<>>
    /\ outcome = "none"
    /\ log = <<>>

\* `?` on an Err, or a panic: the call ends and the table under construction is dropped
Finish(result) ==
    /\ pc' = "done"
    /\ outcome' = result

\* to_binary_data, and the returned bytes wrapped in a reader (to_binary_file, read back)
Encode ==
    /\ pc = "encode"
    /\ buf' = to_binary_data(param)
    /\ pc' = "version"
    /\ UNCHANGED <<overflow_checks, source, param, pos, entry_count, data_offset, i,
                   pos_save, character_id, entries, alt_tracker, outcome, log>>

\* lines 15-21
ReadVersion ==
    /\ pc = "version"
    /\ IF ~Avail(buf, pos, 4)
       THEN Finish("err") /\ UNCHANGED pos
       ELSE /\ pos' = pos + 4
            /\ IF VersionOk(read_u32(buf, pos))
               THEN pc' = "count" /\ UNCHANGED outcome
               ELSE Finish("err")
    /\ UNCHANGED <<overflow_checks, source, param, buf, entry_count, data_offset, i,
                   pos_save, character_id, entries, alt_tracker, log>>

\* line 23
ReadEntryCount ==
    /\ pc = "count"
    /\ IF ~Avail(buf, pos, 4)
       THEN Finish("err") /\ UNCHANGED <<pos, entry_count>>
       ELSE /\ entry_count' = read_u32(buf, pos)
            /\ pos' = pos + 4
            /\ pc' = "offset"
            /\ UNCHANGED outcome
    /\ UNCHANGED <<overflow_checks, source, param, buf, data_offset, i,
                   pos_save, character_id, entries, alt_tracker, log>>

\* lines 25-27
ReadDataOffset ==
    /\ pc = "offset"
    /\ IF ~Avail(buf, pos, 8)
       THEN Finish("err") /\ UNCHANGED <<pos, data_offset>>
       ELSE LET raw == read_u64(buf, pos)
                off == WrappingSub(raw)
                target == SeekCurrent(pos + 8, off)
            IN  IF SubOverflows(raw) /\ overflow_checks
                THEN Finish("panic") /\ UNCHANGED <<pos, data_offset>>
                ELSE /\ data_offset' = off
                     /\ IF target < 0
                        THEN Finish("err") /\ pos' = pos + 8
                        ELSE pos' = target /\ pc' = "loop" /\ UNCHANGED outcome
    /\ UNCHANGED <<overflow_checks, source, param, buf, entry_count, i,
                   pos_save, character_id, entries, alt_tracker, log>>

\* lines 31-36
ReadCharacterId ==
    /\ pc = "loop"
    /\ InRange(i, entry_count)
    /\ IF ~Avail(buf, pos, 8)
       THEN Finish("err") /\ UNCHANGED <<pos, pos_save, character_id, log>>
       ELSE LET raw == read_u64(buf, pos)
                off == WrappingSub(raw)
                target == SeekCurrent(pos + 8, off)
                str == read_cstring(buf, target)
            IN  IF SubOverflows(raw) /\ overflow_checks
                THEN Finish("panic") /\ UNCHANGED <<pos, pos_save, character_id, log>>
                ELSE /\ pos_save' = pos + 8
                     /\ IF target < 0 \/ ~str.ok
                        THEN Finish("err") /\ UNCHANGED <<pos, character_id, log>>
                        ELSE /\ character_id' = str.str
                             /\ pos' = RestorePosition(pos + 8,
                                                       target + Len(str.str) + 1)
                             /\ log' = Append(log,
                                    [ptr_pos |-> pos, ptr_raw |-> raw, str_pos |-> target,
                                     pos_save |-> pos + 8, character_id |-> str.str,
                                     fields_pos |-> -1, costume_index |-> -1,
                                     alt_index |-> -1,
                                     red |-> -1, green |-> -1, blue |-> -1])
                             /\ pc' = "fields"
                             /\ UNCHANGED outcome
    /\ UNCHANGED <<overflow_checks, source, param, buf, entry_count, data_offset, i,
                   entries, alt_tracker>>

\* lines 38-63
ReadEntryFields ==
    /\ pc = "fields"
    /\ IF ~Avail(buf, pos, 4)
       THEN Finish("err") /\ UNCHANGED <<pos, i, entries, alt_tracker, log>>
       ELSE LET costume_index == AsU8(read_u32(buf, pos))
                alt_tracker_key == <<character_id, costume_index>>
                count == IF alt_tracker_key \in DOMAIN alt_tracker
                         THEN alt_tracker[alt_tracker_key] ELSE 0
                alt_index == count
                red == AsU8(read_u32(buf, pos + 4))
                green == AsU8(read_u32(buf, pos + 8))
                blue == AsU8(read_u32(buf, pos + 12))
            IN  IF count + 1 >= U8_RANGE /\ overflow_checks
                THEN Finish("panic") /\ UNCHANGED <<pos, i, entries, alt_tracker, log>>
                ELSE /\ alt_tracker' =
                            [k \in DOMAIN alt_tracker \cup {alt_tracker_key} |->
                                IF k = alt_tracker_key THEN (count + 1) % U8_RANGE
                                                       ELSE alt_tracker[k]]
                     /\ IF ~Avail(buf, pos + 4, 12)
                        THEN Finish("err") /\ UNCHANGED <<pos, i, entries, log>>
                        ELSE /\ entries' = insert(entries,
                                    EntryKey(character_id, costume_index, alt_index),
                                    RGB(red, green, blue))
                             /\ log' = [log EXCEPT ![Len(log)] =
                                    [@ EXCEPT !.fields_pos = pos,
                                              !.costume_index = costume_index,
                                              !.alt_index = alt_index,
                                              !.red = red, !.green = green,
                                              !.blue = blue]]
                             /\ pos' = pos + 16
                             /\ i' = i + 1
                             /\ pc' = "loop"
                             /\ UNCHANGED outcome
    /\ UNCHANGED <<overflow_checks, source, param, buf, entry_count, data_offset,
                   pos_save, character_id>>

\* lines 66-68
Return ==
    /\ pc = "loop"
    /\ ~InRange(i, entry_count)
    /\ Finish("ok")
    /\ UNCHANGED <<overflow_checks, source, param, buf, pos, entry_count, data_offset, i,
                   pos_save, character_id, entries, alt_tracker, log>>

Next ==
    \/ Encode
    \/ ReadVersion
    \/ ReadEntryCount
    \/ ReadDataOffset
    \/ ReadCharacterId
    \/ ReadEntryFields
    \/ Return

Spec == Init /\ [][Next]_vars

(***************************************************************************)
(* Vocabulary of the properties: the buffer read independently of the      *)
(* decoder, as plain numbers.                                              *)
(***************************************************************************)
\* the u32 field at p, modulo m (m <= 256), computed without leaving 32 bits
StoredMod(p, m) ==
    (((buf[p + 1] + 256 * buf[p + 2] + 65536 * buf[p + 3]) % m)
        + (((16777216 % m) * buf[p + 4]) % m)) % m

\* the u64 field at p as a number when it is below 2^24, else -1
StoredU64(p) ==
    IF \A k \in 4..8 : buf[p + k] = 0
    THEN buf[p + 1] + 256 * buf[p + 2] + 65536 * buf[p + 3]
    ELSE -1

HeaderRead == Len(buf) >= HEADER_SIZE /\ SubSeq(buf, 1, 4) = <<232, 3, 0, 0>>

\* absolute position of the entry table: 16 + data_offset - 8
TableStart == 16 + StoredU64(8) - 8

Reorderings(s) ==
    {[k \in 1..Len(s) |-> s[f[k]]] :
        f \in {g \in [1..Len(s) -> 1..Len(s)] : \A a, b \in 1..Len(s) : a # b => g[a] # g[b]}}

Ascending(s) == \A k \in 1..(Len(s) - 1) : KeyLess(s[k].key, s[k + 1].key)

AllIdsSixAscii(es) ==
    \A e \in Range(es) :
        Len(e.key.character_id) = 6 /\ \A b \in Range(e.key.character_id) : b < 128

NoNulInIds(es) == \A e \in Range(es) : \A b \in Range(e.key.character_id) : b # 0

\* within every (character id, costume) group of k entries the alt indices are 0 .. k-1
AltsContiguous(es) ==
    \A e \in Range(es) :
        e.key.alt_index =
            Cardinality({f \in Range(es) :
                /\ f.key.character_id = e.key.character_id
                /\ f.key.costume_index = e.key.costume_index
                /\ f.key.alt_index < e.key.alt_index})

\* to_binary_data has just returned (the buffer is not written again)
Encoded == source = "table" /\ pc = "version"

Completed(r) == r.fields_pos # -1

\* log records before the k-th of the same character id that satisfy same(j)
Earlier(k, same(_)) ==
    Cardinality({j \in 1..(k - 1) :
        log[j].character_id = log[k].character_id /\ same(j)})

(***************************************************************************)
(* C1 (as stated): for every table whose character ids are all 6 ASCII     *)
(* bytes, decoding the encoded table succeeds and gives the same key/value *)
(* mapping, whatever the alt_index values of the table.                    *)
(***************************************************************************)
C1_RoundTrip_AnyAlt ==
    (source = "table" /\ pc = "done" /\ AllIdsSixAscii(param)) =>
        outcome = "ok" /\ Range(entries) = Range(param)

(***************************************************************************)
(* C1 (amended): for every table whose character ids are all 6 ASCII bytes *)
(* other than NUL, and whose alt_index values are 0 .. k-1 within every    *)
(* (character id, costume) group, decoding the encoded table succeeds and  *)
(* gives the same key/value mapping.                                       *)
(***************************************************************************)
C1_RoundTrip_ContiguousAlts ==
    (source = "table" /\ pc = "done" /\ AllIdsSixAscii(param)
        /\ NoNulInIds(param) /\ AltsContiguous(param)) =>
        outcome = "ok" /\ Range(entries) = Range(param)

\* a group of two alternates, inserted in descending alt order, has gone round
C1_Witness ==
    /\ source = "table" /\ pc = "done" /\ outcome = "ok"
    /\ Len(param) = 2
    /\ AllIdsSixAscii(param) /\ NoNulInIds(param) /\ AltsContiguous(param)
    /\ param[1].key.alt_index = 1 /\ param[2].key.alt_index = 0
    /\ param[1].value # param[2].value
    /\ Range(entries) = Range(param)

(***************************************************************************)
(* C2: an input whose version field is not 1000 ends in an error and no    *)
(* table, whatever follows the field (even nothing); nothing else has been *)
(* read and no seek made: the position is just past the version field.     *)
(***************************************************************************)
C2_BadVersionRejected ==
    (pc \notin {"encode", "version"} /\ Len(buf) >= 4
        /\ SubSeq(buf, 1, 4) # <<232, 3, 0, 0>>) =>
        /\ pc = "done" /\ outcome = "err"
        /\ pos = 4
        /\ entry_count = NoU32 /\ data_offset = NoU64
        /\ entries = <<>> /\ log = <<>>

\* a buffer that ends with a version field carrying 1000 in its low half only
C2_Witness ==
    /\ pc = "done" /\ outcome = "err"
    /\ buf = <<232, 3, 1, 0>>

(***************************************************************************)
(* C3: after a successful decode of n entries the table has n entries,     *)
(* all keys unique, and the j-th occurrence of a (character id, narrowed   *)
(* costume) pair has alt_index j-1, for every number of occurrences.       *)
(***************************************************************************)
C3_AltIndexContiguous ==
    (pc = "done" /\ outcome = "ok") =>
        /\ Len(entries) = Len(log)
        /\ \A a, b \in 1..Len(entries) : a # b => entries[a].key # entries[b].key
        /\ \A k \in 1..Len(log) :
              LET same(j) == log[j].costume_index = log[k].costume_index
              IN  log[k].alt_index = Earlier(k, same)

(***************************************************************************)
(* C4: the three colour fields of a record are, in physical order, red,    *)
(* blue, green: decode stores the second field in blue and the third in    *)
(* green, and encode writes blue second and green third.                   *)
(***************************************************************************)
C4_RedBlueGreen ==
    /\ \A k \in 1..Len(log) :
          Completed(log[k]) =>
              /\ log[k].red = StoredMod(log[k].fields_pos + 4, 256)
              /\ log[k].blue = StoredMod(log[k].fields_pos + 8, 256)
              /\ log[k].green = StoredMod(log[k].fields_pos + 12, 256)
    /\ Encoded =>
          \A k \in 1..Len(param) :
              LET e == sort_keys(param)[k]
                  rec == HEADER_SIZE + RECORD_SIZE * (k - 1)
              IN  /\ StoredMod(rec + 12, 256) = e.value.red
                  /\ StoredMod(rec + 16, 256) = e.value.blue
                  /\ StoredMod(rec + 20, 256) = e.value.green

(***************************************************************************)
(* C5 (as stated): the buffer to_binary_data returns has exactly           *)
(* 16 + 32 * n bytes, whatever the lengths of the character ids.           *)
(***************************************************************************)
C5_Size_AnyLength == Encoded => Len(buf) = size(param)

(***************************************************************************)
(* C5 (amended): the buffer has 16 + 24 * n bytes plus, for every entry,   *)
(* the length of its character id plus 2; that is 16 + 32 * n when every   *)
(* character id is 6 bytes long.                                           *)
(***************************************************************************)
RECURSIVE IdBytes(_)
IdBytes(es) ==
    IF es = <<>> THEN 0 ELSE Len(Head(es).key.character_id) + 2 + IdBytes(Tail(es))

C5_Size_ByIdLength ==
    Encoded =>
        /\ Len(buf) = 16 + 24 * Len(param) + IdBytes(param)
        /\ (\A e \in Range(param) : Len(e.key.character_id) = 6) =>
              Len(buf) = 16 + 32 * Len(param)

\* two encoded tables' worth of cases: a 6-byte id beside a 5-byte one
C5_Witness ==
    /\ Encoded
    /\ Len(param) = 2
    /\ Len(param[1].key.character_id) = 6
    /\ Len(param[2].key.character_id) = 5
    /\ Len(buf) = 16 + 32 * 2 - 1

(***************************************************************************)
(* C6: a decode call ends with a table or with an error, never with an     *)
(* abort; a data offset or string pointer whose raw value is below 8, and  *)
(* a data offset that resolves outside the buffer, end in the error.       *)
(***************************************************************************)
C6_MalformedIsError ==
    pc = "done" =>
        /\ outcome \in {"ok", "err"}
        /\ (HeaderRead /\ SubOverflows(read_u64(buf, 8))) => outcome = "err"
        /\ (\E k \in 1..Len(log) : SubOverflows(log[k].ptr_raw)) => outcome = "err"
        /\ (HeaderRead /\ StoredU64(8) >= 8 /\ TableStart > Len(buf)) => outcome = "err"

(***************************************************************************)
(* C7: tables with the same key/value pairs in any insertion order encode  *)
(* to the same bytes, and the entry records are in ascending order of      *)
(* (character id, costume index, alt index).                               *)
(***************************************************************************)
C7_SortDeterminism ==
    Encoded =>
        /\ \A q \in Reorderings(param) : to_binary_data(q) = buf
        /\ \E q \in Reorderings(param) :
              /\ Ascending(q)
              /\ \A k \in 1..Len(q) :
                    /\ SubSeq(buf, HEADER_SIZE + RECORD_SIZE * (k - 1) + 9,
                                   HEADER_SIZE + RECORD_SIZE * k)
                         = write_u32(q[k].key.costume_index)
                              \o write_u32(q[k].value.red)
                              \o write_u32(q[k].value.green)
                              \o write_u32(q[k].value.blue)

\* a table inserted in descending key order has been encoded
C7_Witness ==
    /\ Encoded
    /\ Len(param) = 2
    /\ KeyLess(param[2].key, param[1].key)
    /\ param[1].key.character_id # param[2].key.character_id
    /\ param[1].value # param[2].value

(***************************************************************************)
(* C8: the decoded costume index and colour channels are the stored 32-bit *)
(* values modulo 256; a stored value is never rejected; and the alt_index  *)
(* groups are formed on the narrowed costume index.                        *)
(***************************************************************************)
C8_Narrowing ==
    /\ (log # <<>> /\ Completed(log[Len(log)])) =>
          LET k == Len(log)
              r == log[k]
              same(j) == StoredMod(log[j].fields_pos, 256) = StoredMod(r.fields_pos, 256)
          IN  /\ r.costume_index = StoredMod(r.fields_pos, 256)
              /\ r.red = StoredMod(r.fields_pos + 4, 256)
              /\ r.green = StoredMod(r.fields_pos + 8, 256)
              /\ r.blue = StoredMod(r.fields_pos + 12, 256)
              /\ Earlier(k, same) < 256 => r.alt_index = Earlier(k, same)
              /\ \E e \in Range(entries) :
                    /\ e.key = EntryKey(r.character_id, r.costume_index, r.alt_index)
                    /\ e.value = RGB(r.red, r.green, r.blue)
    /\ (pc = "done" /\ outcome = "err" /\ log # <<>> /\ ~Completed(log[Len(log)])) =>
          ~Avail(buf, pos, 16)

\* stored costumes 3 and 259 of one character: one group; stored channel 0x143: 0x43
C8_Witness ==
    /\ pc = "done" /\ outcome = "ok"
    /\ Len(log) = 2
    /\ buf[log[1].fields_pos + 1] = 3 /\ buf[log[1].fields_pos + 2] = 0
    /\ buf[log[2].fields_pos + 1] = 3 /\ buf[log[2].fields_pos + 2] = 1
    /\ buf[log[2].fields_pos + 5] = 67 /\ buf[log[2].fields_pos + 6] = 1
    /\ log[1].character_id = log[2].character_id
    /\ log[2].costume_index = 3 /\ log[2].alt_index = 1 /\ log[2].red = 67

(***************************************************************************)
(* C9: in the encoding of n entries with 6-byte character ids, the string  *)
(* pointer of record i resolves (position after the field + raw - 8) to    *)
(* 16 + 24 * n + 8 * i, where the i-th sorted entry's own copy of its      *)
(* character id starts; the data-offset field is 8.                        *)
(***************************************************************************)
C9_PointerGeometry ==
    (Encoded /\ \A e \in Range(param) : Len(e.key.character_id) = 6) =>
        /\ StoredU64(8) = 8
        /\ \A k \in 0..(Len(param) - 1) :
              LET field == 16 + 24 * k
                  resolved == field + 8 + StoredU64(field) - 8
              IN  /\ StoredU64(field) >= 0
                  /\ resolved = 16 + 24 * Len(param) + 8 * k
                  /\ SubSeq(buf, resolved + 1, resolved + 8)
                        = sort_keys(param)[k + 1].key.character_id \o <<0, 0>>

\* two entries of one character: two string records
C9_Witness ==
    /\ Encoded
    /\ Len(param) = 2
    /\ param[1].key.character_id = param[2].key.character_id
    /\ Len(param[1].key.character_id) = 6
    /\ Len(buf) = 80
    /\ SubSeq(buf, 65, 72) = SubSeq(buf, 73, 80)

(***************************************************************************)
(* C10: with the entry table at T = 16 + data_offset - 8, the k-th string  *)
(* pointer is read at T + 24 * (k - 1) and the costume and colour fields   *)
(* from the 16 bytes after it, whatever the pointers and strings are; the  *)
(* bytes between the header and T are skipped.                             *)
(***************************************************************************)
C10_CursorInvariant ==
    (HeaderRead /\ StoredU64(8) >= 0 /\ pc \in {"loop", "fields", "done"}) =>
        /\ (pc = "loop" => pos = TableStart + 24 * i /\ Len(log) = i)
        /\ log # <<>> =>
              LET k == Len(log)
                  r == log[k]
              IN  /\ r.ptr_pos = TableStart + 24 * (k - 1)
                  /\ r.pos_save = r.ptr_pos + 8
                  /\ pc = "fields" => pos = r.pos_save /\ pos_save = r.pos_save
                  /\ Completed(r) => r.fields_pos = r.ptr_pos + 8

\* two entries behind an ignored region, their strings of different lengths and places
C10_Witness ==
    /\ pc = "done" /\ outcome = "ok"
    /\ HeaderRead /\ TableStart = 24
    /\ Len(log) = 2
    /\ Len(log[1].character_id) # Len(log[2].character_id)
    /\ log[1].str_pos > log[1].ptr_pos /\ log[2].str_pos < log[2].ptr_pos
    /\ log[2].fields_pos = 56

====
